---- MODULE Spec2Model ----
(***************************************************************************)
(* Model of src/main.py: the nail-photo assessment pipeline.               *)
(*                                                                         *)
(* Text is modelled character by character on TLA+ strings (Len, SubSeq    *)
(* and \o work on strings in TLC), so that str.find, str.strip, str.lower, *)
(* str.split and json.loads are computed, not assumed.                     *)
(*                                                                         *)
(* Python values are records of one shape, [t, s, n, d, o]:                *)
(*   t = "null"   None / NaN                                               *)
(*   t = "str"    the string s                                             *)
(*   t = "int"    the integer n                                            *)
(*   t = "bool"   True (n = 1) or False (n = 0)                            *)
(*   t = "float"  the decimal n / 10^d                                     *)
(*   t = "obj"    a dict: o is the sequence of its [k, v] items, in        *)
(*                insertion order, keys unique                             *)
(***************************************************************************)
EXTENDS Integers, Sequences, FiniteSets, TLC

VARIABLES
    ws,            \* the sheet
    df,            \* the rows loaded from it: a sequence of dicts, column -> value
    i,             \* the row the loop is at (1-based), 0 before the first
    jpeg,          \* what fetch_image_as_jpeg returned for row i
    backend,       \* what the storage behind row i's reference held
    flat_results,  \* the entries appended so far
    fetch_log,     \* history: per fetch, its row and whether it gave an image
    oracle_log,    \* history: per oracle call, its row and the oracle's reply
    pc             \* "fetch": at the head of the loop; "score": in the try
                   \* block of row i; "done": after writeback

vars == <<ws, df, i, jpeg, backend, flat_results, fetch_log, oracle_log, pc>>

\* ---------------------------------------------------------------- bounds

\* The largest number of rows of a dataset.
MaxRows == 2

\* ------------------------------------------------------- Python values

JNull == [t |-> "null", s |-> "", n |-> 0, d |-> 0, o |-> <<>>]

JStr(x) == [t |-> "str", s |-> x, n |-> 0, d |-> 0, o |-> <<>>]

JInt(x) == [t |-> "int", s |-> "", n |-> x, d |-> 0, o |-> <<>>]

JFloat(m, e) == [t |-> "float", s |-> "", n |-> m, d |-> e, o |-> <<>>]

JObj(items) == [t |-> "obj", s |-> "", n |-> 0, d |-> 0, o |-> items]

JBool(b) == [t |-> "bool", s |-> "", n |-> IF b THEN 1 ELSE 0, d |-> 0, o |-> <<>>]

\* ------------------------------------------------------------- strings

\* The k-th character (1-based) of s, "" outside s.
Ch(s, k) == IF k >= 1 /\ k <= Len(s) THEN SubSeq(s, k, k) ELSE ""

Min(S) == CHOOSE x \in S : \A y \in S : x <= y

Max(S) == CHOOSE x \in S : \A y \in S : x >= y

RECURSIVE Pow10(_)
Pow10(e) == IF e <= 0 THEN 1 ELSE 10 * Pow10(e - 1)

\* The 1-based positions where sub occurs in s.
Occurrences(s, sub) ==
    {k \in 1..(Len(s) - Len(sub) + 1) : SubSeq(s, k, k + Len(sub) - 1) = sub}

\* str.find: the 0-based index of the first occurrence, -1 when there is none.
find(s, sub) ==
    IF Occurrences(s, sub) = {} THEN -1 ELSE Min(Occurrences(s, sub)) - 1

\* str.rfind: the 0-based index of the last occurrence, -1 when there is none.
rfind(s, sub) ==
    IF Occurrences(s, sub) = {} THEN -1 ELSE Max(Occurrences(s, sub)) - 1

\* sub in s
contains(s, sub) == find(s, sub) # -1

\* s.startswith(prefix)
startswith(s, prefix) ==
    Len(prefix) <= Len(s) /\ SubSeq(s, 1, Len(prefix)) = prefix

\* s[a:b] for 0 <= a, 0 <= b (0-based, b excluded); empty when b <= a.
Slice(s, a, b) == IF b <= a THEN "" ELSE SubSeq(s, a + 1, b)

IsSpace(c) == c \in {" ", "\n", "\t"}

RECURSIVE lstrip(_)
lstrip(s) ==
    IF Len(s) > 0 /\ IsSpace(Ch(s, 1)) THEN lstrip(SubSeq(s, 2, Len(s))) ELSE s

RECURSIVE rstrip(_)
rstrip(s) ==
    IF Len(s) > 0 /\ IsSpace(Ch(s, Len(s)))
    THEN rstrip(SubSeq(s, 1, Len(s) - 1)) ELSE s

\* str.strip()
strip(s) == rstrip(lstrip(s))

Upper == "ABCDEFGHIJKLMNOPQRSTUVWXYZ"

Lower == "abcdefghijklmnopqrstuvwxyz"

LowerCh(c) == IF contains(Upper, c) THEN Ch(Lower, find(Upper, c) + 1) ELSE c

RECURSIVE lower(_)
\* str.lower()
lower(s) ==
    IF Len(s) = 0 THEN s ELSE LowerCh(Ch(s, 1)) \o lower(SubSeq(s, 2, Len(s)))

\* s.split(sep)[-1]: what follows the last occurrence of sep (s when none).
SplitLast(s, sep) ==
    IF contains(s, sep) THEN Slice(s, rfind(s, sep) + Len(sep), Len(s)) ELSE s

\* s.split(sep)[0]: what precedes the first occurrence of sep (s when none).
SplitFirst(s, sep) ==
    IF contains(s, sep) THEN Slice(s, 0, find(s, sep)) ELSE s

\* s.split(sep)[1], for s that contains sep: what lies between the first
\* occurrence of sep and the next one.
SplitSecond(s, sep) ==
    SplitFirst(Slice(s, find(s, sep) + Len(sep), Len(s)), sep)

Digits == "0123456789"

IsDigit(c) == Len(c) = 1 /\ contains(Digits, c)

DigitVal(c) == find(Digits, c)

RECURSIVE NatStr(_)
NatStr(x) ==
    IF x < 10 THEN Ch(Digits, x + 1) ELSE NatStr(x \div 10) \o Ch(Digits, (x % 10) + 1)

\* str(x) of an int
IntStr(x) == IF x < 0 THEN "-" \o NatStr(0 - x) ELSE NatStr(x)

RECURSIVE PadStr(_, _)
\* m written with e digits, zeros in front.
PadStr(m, e) ==
    IF e <= 1 THEN NatStr(m % 10)
    ELSE PadStr(m \div 10, e - 1) \o NatStr(m % 10)

RECURSIVE FracStr(_, _)
\* The e digits of the fraction m / 10^e, without its trailing zeros but
\* with one digit at least.
FracStr(m, e) ==
    IF e > 1 /\ m % 10 = 0 THEN FracStr(m \div 10, e - 1) ELSE PadStr(m, e)

Abs(x) == IF x < 0 THEN 0 - x ELSE x

\* str(x) of the float m / 10^e (repr: the shortest decimal, "7.0" for 7).
FloatStr(m, e) ==
    (IF m < 0 THEN "-" ELSE "") \o NatStr(Abs(m) \div Pow10(e)) \o "."
        \o (IF e = 0 THEN "0" ELSE FracStr(Abs(m) % Pow10(e), e))

\* ---------------------------------------------------------------- dicts

\* A dict is the sequence of its items [k, v], keys unique.
DictHas(o, key) == \E x \in 1..Len(o) : o[x].k = key

\* dict.get(key): the value, None when the key is absent.
DictGet(o, key) ==
    IF DictHas(o, key) THEN o[CHOOSE x \in 1..Len(o) : o[x].k = key].v ELSE JNull

\* dict[key] = val: in place when the key is there, appended otherwise.
DictSet(o, key, val) ==
    IF DictHas(o, key)
    THEN [x \in 1..Len(o) |-> IF o[x].k = key THEN [k |-> key, v |-> val] ELSE o[x]]
    ELSE Append(o, [k |-> key, v |-> val])

DictKeys(o) == {o[x].k : x \in 1..Len(o)}

\* ----------------------------------------------------------- json.loads
\* The grammar covers objects, strings without escapes, numbers without
\* exponent, true, false and null; arrays are no part of it.

ParseFail == [ok |-> FALSE, v |-> JNull, next |-> 0]

ParseOk(val, nxt) == [ok |-> TRUE, v |-> val, next |-> nxt]

RECURSIVE SkipWs(_, _)
SkipWs(s, k) == IF IsSpace(Ch(s, k)) THEN SkipWs(s, k + 1) ELSE k

RECURSIVE DigitsEnd(_, _)
\* The first position from k on that holds no digit.
DigitsEnd(s, k) == IF IsDigit(Ch(s, k)) THEN DigitsEnd(s, k + 1) ELSE k

RECURSIVE StrNat(_)
\* The number a string of digits writes.
StrNat(s) ==
    IF Len(s) = 0 THEN 0
    ELSE 10 * StrNat(SubSeq(s, 1, Len(s) - 1)) + DigitVal(Ch(s, Len(s)))

\* A string literal that opens at k.
ParseString(s, k) ==
    LET rest == SubSeq(s, k + 1, Len(s))
        q    == find(rest, "\"")
    IN  IF Ch(s, k) # "\"" \/ q = -1 \/ contains(Slice(rest, 0, q), "\\")
        THEN ParseFail
        ELSE ParseOk(JStr(Slice(rest, 0, q)), k + q + 2)

\* A number that starts at k: -?(0|[1-9][0-9]*)(.[0-9]+)?
ParseNumber(s, k) ==
    LET neg  == Ch(s, k) = "-"
        a    == IF neg THEN k + 1 ELSE k
        b    == DigitsEnd(s, a)
        ip   == SubSeq(s, a, b - 1)
        frac == Ch(s, b) = "."
        c    == IF frac THEN DigitsEnd(s, b + 1) ELSE b
        fp   == SubSeq(s, b + 1, c - 1)
        sign == IF neg THEN -1 ELSE 1
    IN  IF b = a \/ (b - a > 1 /\ Ch(s, a) = "0") \/ (frac /\ c = b + 1)
        THEN ParseFail
        ELSE IF frac
        THEN ParseOk(JFloat(sign * StrNat(ip \o fp), Len(fp)), c)
        ELSE ParseOk(JInt(sign * StrNat(ip)), c)

RECURSIVE ParseValue(_, _)
RECURSIVE ParseMembers(_, _, _)

\* The members of an object from k (the first character of a key) on.
ParseMembers(s, k, acc) ==
    LET key   == ParseString(s, k)
        colon == SkipWs(s, key.next)
        val   == ParseValue(s, SkipWs(s, colon + 1))
        after == SkipWs(s, val.next)
        items == DictSet(acc, key.v.s, val.v)
    IN  IF ~key.ok \/ Ch(s, colon) # ":" THEN ParseFail
        ELSE IF ~val.ok THEN ParseFail
        ELSE IF Ch(s, after) = "," THEN ParseMembers(s, SkipWs(s, after + 1), items)
        ELSE IF Ch(s, after) = "}" THEN ParseOk(JObj(items), after + 1)
        ELSE ParseFail

\* The value that starts at k.
ParseValue(s, k) ==
    LET c == Ch(s, k)
    IN  IF c = "{"
        THEN IF Ch(s, SkipWs(s, k + 1)) = "}"
             THEN ParseOk(JObj(<<>>), SkipWs(s, k + 1) + 1)
             ELSE ParseMembers(s, SkipWs(s, k + 1), <<>>)
        ELSE IF c = "\"" THEN ParseString(s, k)
        ELSE IF c = "-" \/ IsDigit(c) THEN ParseNumber(s, k)
        ELSE IF SubSeq(s, k, Min({Len(s), k + 3})) = "null" THEN ParseOk(JNull, k + 4)
        ELSE IF SubSeq(s, k, Min({Len(s), k + 3})) = "true" THEN ParseOk(JBool(TRUE), k + 4)
        ELSE IF SubSeq(s, k, Min({Len(s), k + 4})) = "false" THEN ParseOk(JBool(FALSE), k + 5)
        ELSE ParseFail

\* json.loads(text): the value text writes; not ok is JSONDecodeError.
json_loads(text) ==
    LET r == ParseValue(text, SkipWs(text, 1))
    IN  IF r.ok /\ SkipWs(text, r.next) = Len(text) + 1 THEN r ELSE ParseFail

\* ------------------------------------------------------------ str(value)

RECURSIVE PyStr(_)
RECURSIVE PyRepr(_)
RECURSIVE ItemsRepr(_)

\* repr of the items of a dict.
ItemsRepr(o) ==
    IF Len(o) = 0 THEN ""
    ELSE "'" \o Head(o).k \o "': " \o PyRepr(Head(o).v)
         \o (IF Len(o) > 1 THEN ", " ELSE "") \o ItemsRepr(Tail(o))

\* repr(x)
PyRepr(x) == IF x.t = "str" THEN "'" \o x.s \o "'" ELSE PyStr(x)

\* str(x), as an f-string formats x.
PyStr(x) ==
    CASE x.t = "null"  -> "None"
      [] x.t = "str"   -> x.s
      [] x.t = "int"   -> IntStr(x.n)
      [] x.t = "float" -> FloatStr(x.n, x.d)
      [] x.t = "bool"  -> IF x.n = 1 THEN "True" ELSE "False"
      [] x.t = "obj"   -> "{" \o ItemsRepr(x.o) \o "}"

\* ------------------------------------------------------------ exceptions

\* What a call yields: a value (exc = "") or a raised exception.
Ret(x) == [exc |-> "", val |-> x]

Raise(e) == [exc |-> e, val |-> JNull]

\* bool(x) for the values the pipeline tests: None, "" and b"" are false.
Truthy(x) == ~(x.t = "null" \/ (x.t = "str" /\ x.s = ""))

\* --------------------------------------------------------------- dataset

photo_col == "Photo"

result_cols ==
    <<"Polish Application", "Cuticle Work", "Nail Shape",
      "Cleanliness", "Overall Score", "Recommendation">>

categories == <<"Polish Application", "Cuticle Work", "Nail Shape", "Cleanliness">>

\* A row of df: its photo reference, its "already processed" timestamp and
\* the six result columns, all holding prior.
Row(photo, stamp, prior) ==
    <<[k |-> photo_col, v |-> photo], [k |-> "Timestamp", v |-> stamp]>>
        \o [c \in 1..Len(result_cols) |-> [k |-> result_cols[c], v |-> prior]]

\* The rows a dataset is made of.  Rows without a photo reference are not
\* among them: dropna removed them.
SampleRows ==
    { Row(JStr("http://h/a.jpg"), JNull, JNull),
      Row(JStr("http://d/file/d/F1/view"), JNull, JNull),
      Row(JStr("http://d/open?id=F2"), JNull, JNull),
      Row(JStr("/content/drive/n.heic"), JStr("2024-05-01"), JStr("old")),
      Row(JStr("http://d/open?id="), JNull, JNull),
      Row(JInt(42), JNull, JNull) }

Datasets == UNION {[1..len -> SampleRows] : len \in 0..MaxRows}

\* What a storage backend holds under a reference: nothing it can deliver,
\* bytes that are no image, an image, or a PDF.
Backends == {"unreachable", "garbage", "image", "pdf"}

\* What the scoring oracle does with a request: it fails (exc), or it
\* answers with a text.
Replies ==
    { [exc |-> TRUE, content |-> ""],
      [exc |-> FALSE, content |-> "Sorry, I cannot rate this photo."],
      [exc |-> FALSE, content |-> "7 of 10 }"],
      [exc |-> FALSE, content |-> "} no json {"],
      [exc |-> FALSE, content |->
          "{\"Polish Application\": {\"score\": 7}, \"Cuticle Work\": {\"score\": 8, \"comm"],
      [exc |-> FALSE, content |->
          "Assessment (JSON):\n{\"Polish Application\": {\"score\": 9, \"comment\": \"smooth\"}, "
          \o "\"Cuticle Work\": {\"comment\": \"tidy\", \"score\": 8}, "
          \o "\"Nail Shape\": {\"score\": 9, \"comment\": \"even\"}, "
          \o "\"Cleanliness\": {\"score\": 8, \"comment\": \"clean\"}, "
          \o "\"Overall Score\": 8.5, \"Recommendation\": \"Highly Recommend Hire\"}\nDone."],
      [exc |-> FALSE, content |->
          "{\"Polish Application\": \"7, ok\", \"Cuticle Work\": \"7, ok\", "
          \o "\"Nail Shape\": \"7, ok\", \"Cleanliness\": \"7, ok\", "
          \o "\"Overall Score\": 9, \"Recommendation\": \"Not Recommend Hire\"}"],
      [exc |-> FALSE, content |->
          " {\" polish application \": \"6, thin\", \"CUTICLE WORK\": {\"score\": 5}, "
          \o "\"NailShape\": \"4, uneven\", \"cleanliness\": \"   \", "
          \o "\"overall score\": 5.0, \"recommendation\": \"Not Recommend Hire\"} "],
      [exc |-> FALSE, content |->
          "Here you go: {\"Polish Application\": 7, \"Cuticle Work\": \"\", "
          \o "\"Nail Shape\": null, \"Notes\": \"blurry\"}"] }

\* ------------------------------------------------- image handling helpers

\* _download_drive_file: its first statement reads drive_service, a name the
\* module never binds (line 35 binds _service), so the call raises NameError
\* before the backend is contacted and the chunk loop is never entered.
_download_drive_file(file_id, held) == Raise("NameError")

\* _to_jpeg: the first page of a PDF, else any image Pillow opens, as JPEG.
_to_jpeg(img_bytes) ==
    LET pages == IF img_bytes.s = "pdf" THEN Ret(JStr("JPEG")) ELSE Raise("PDFPageCountError")
    IN  IF pages.exc = "" THEN pages
        ELSE IF img_bytes.s = "image" THEN Ret(JStr("JPEG"))
        ELSE Raise("UnidentifiedImageError")

\* The file id of a Drive link (lines 92-96), None when the reference is none.
DriveFileId(path_or_url) ==
    IF contains(path_or_url, "open?id=")
    THEN JStr(SplitLast(path_or_url, "open?id="))
    ELSE IF contains(path_or_url, "/file/d/")
    THEN JStr(SplitFirst(SplitSecond(path_or_url, "/file/d/"), "/"))
    ELSE JNull

\* The body of fetch_image_as_jpeg's try block; held is what the backend the
\* reference leads to holds.
FetchBody(path_or_url, held) ==
    IF path_or_url.t # "str" THEN Raise("AttributeError")
    ELSE IF startswith(path_or_url.s, "/content/drive/")
    THEN IF held = "unreachable" THEN Raise("FileNotFoundError")
         ELSE _to_jpeg(JStr(held))
    ELSE IF Truthy(DriveFileId(path_or_url.s))
    THEN LET got == _download_drive_file(DriveFileId(path_or_url.s).s, held)
         IN  IF got.exc # "" THEN got ELSE _to_jpeg(got.val)
    ELSE IF held = "unreachable" THEN Raise("RequestException")
    ELSE _to_jpeg(JStr(held))

\* fetch_image_as_jpeg: JPEG bytes, or None if anything fails.
fetch_image_as_jpeg(path_or_url, held) ==
    IF FetchBody(path_or_url, held).exc # "" THEN JNull
    ELSE FetchBody(path_or_url, held).val

\* ------------------------------------------------------ GPT prompt & call

\* get_nail_assessment: the mapping parsed from the oracle's reply.
get_nail_assessment(jpeg_b64, reply) ==
    IF reply.exc THEN Raise("OpenAIError")
    ELSE LET raw   == strip(reply.content)
             start == find(raw, "{")
             end   == rfind(raw, "}")
         IN  IF start = -1 \/ end = -1 THEN Raise("ValueError")
             ELSE IF json_loads(Slice(raw, start, end + 1)).ok
             THEN Ret(json_loads(Slice(raw, start, end + 1)).v)
             ELSE Raise("JSONDecodeError")

\* ------------------------------------------------------- result assembly

\* {col: "None" for col in result_cols}
NoneResult == [c \in 1..Len(result_cols) |-> [k |-> result_cols[c], v |-> JStr("None")]]

\* std_keys = {k.lower().strip(): k for k in categories}
std_keys == [c \in 1..Len(categories) |-> [k |-> strip(lower(categories[c])), v |-> JStr(categories[c])]]

\* std_keys.get(k.lower().strip(), k)
NormaliseKey(key) ==
    IF DictHas(std_keys, strip(lower(key)))
    THEN DictGet(std_keys, strip(lower(key))).s
    ELSE key

RECURSIVE NormaliseInto(_, _)
NormaliseInto(acc, items) ==
    IF Len(items) = 0 THEN acc
    ELSE NormaliseInto(DictSet(acc, NormaliseKey(Head(items).k), Head(items).v), Tail(items))

\* {std_keys.get(k.lower().strip(), k): v for k, v in res.items()}
NormaliseKeys(res) == NormaliseInto(<<>>, res)

\* FlattenItem with score and comment swapped in the f-string.
FlattenItem_Swapped(item) ==
    IF item.t = "obj"
    THEN JStr(PyStr(DictGet(item.o, "comment")) \o ", " \o PyStr(DictGet(item.o, "score")))
    ELSE IF item.t = "str" /\ strip(item.s) # "" THEN item
    ELSE JStr("None")

\* What one category's value is flattened to.
FlattenItem(item) ==
    IF item.t = "obj"
    THEN JStr(PyStr(DictGet(item.o, "score")) \o ", " \o PyStr(DictGet(item.o, "comment")))
    ELSE IF item.t = "str" /\ strip(item.s) # "" THEN item
    ELSE JStr("None")

RECURSIVE FlattenFrom(_, _)
FlattenFrom(res, c) ==
    IF c > Len(categories) THEN res
    ELSE FlattenFrom(DictSet(res, categories[c], FlattenItem(DictGet(res, categories[c]))), c + 1)

\* for cat in categories: ... (lines 176-184)
Flatten(res) == FlattenFrom(res, 1)

\* ImageLoadFailed with the append forgotten: the loop just continues.
ImageLoadFailed_NoAppend(results) == results

\* The entry of a row whose image could not be loaded is appended.
ImageLoadFailed(results) == Append(results, NoneResult)

\* The try block of the row loop (lines 163-191) for one reply of the oracle:
\* the entry the row gets.
RowResult(image, reply) ==
    IF get_nail_assessment(image, reply).exc # "" THEN NoneResult
    ELSE Flatten(NormaliseKeys(get_nail_assessment(image, reply).val.o))

\* get_nail_assessment and RowResult do not depend on the state: they are
\* tabulated over the replies once.
Assessments == [reply \in Replies |-> get_nail_assessment(JStr("JPEG"), reply)]

RowResults == [reply \in Replies |-> RowResult(JStr("JPEG"), reply)]

\* GptError with the entry built over categories instead of result_cols.
GptError_FourFields(results) ==
    Append(results, [c \in 1..Len(categories) |-> [k |-> categories[c], v |-> JStr("None")]])

\* The entry of a row whose assessment raised is appended.
GptError(results) == Append(results, NoneResult)

\* The try block of the row loop: the results with the row's entry appended.
Assess(results, image, reply) ==
    IF Assessments[reply].exc # "" THEN GptError(results)
    ELSE Append(results, RowResults[reply])

\* ---------------------------------------------------------------- writeback

\* df.at[r, col] = val; a column df lacks is added, NaN in the other rows.
DfSet(frame, r, col, val) ==
    [x \in 1..Len(frame) |->
        IF x = r THEN DictSet(frame[x], col, val)
        ELSE IF DictHas(frame[x], col) THEN frame[x]
        ELSE DictSet(frame[x], col, JNull)]

RECURSIVE WriteRow(_, _, _)
WriteRow(frame, r, res) ==
    IF Len(res) = 0 THEN frame
    ELSE WriteRow(DfSet(frame, r, Head(res).k, Head(res).v), r, Tail(res))

RECURSIVE WriteFrom(_, _, _)
WriteFrom(frame, results, r) ==
    IF r > Len(results) THEN frame
    ELSE WriteFrom(WriteRow(frame, r, results[r]), results, r + 1)

\* ------------------------------------------------------------------ actions

Init ==
    /\ df \in Datasets
    /\ ws = df
    /\ i = 0
    /\ jpeg = JNull
    /\ backend = "unreachable"
    /\ flat_results = <<>>
    /\ fetch_log = <<>>
    /\ oracle_log = <<>>
    /\ pc = "fetch"

\* ImageMissing with the test dropped: every row goes on to the oracle.
ImageMissing_Never(image) == FALSE

\* not jpeg
ImageMissing(image) == ~Truthy(image)

\* One turn of the row loop up to the image test (lines 156-161): the next
\* row's image is fetched; without an image the row's entry is the
\* all-"None" result and the loop continues.
FetchRow ==
    /\ pc = "fetch"
    /\ i < Len(df)
    /\ \E held \in Backends :
         LET image == fetch_image_as_jpeg(DictGet(df[i + 1], photo_col), held)
         IN  /\ backend' = held
             /\ jpeg' = image
             /\ fetch_log' = Append(fetch_log, [row |-> i + 1, ok |-> Truthy(image)])
             /\ IF ImageMissing(image)
                THEN flat_results' = ImageLoadFailed(flat_results) /\ pc' = "fetch"
                ELSE flat_results' = flat_results /\ pc' = "score"
    /\ i' = i + 1
    /\ UNCHANGED <<ws, df, oracle_log>>

\* The rest of the turn (lines 163-191): the oracle is asked and the row's
\* entry is appended.
ScoreRow ==
    /\ pc = "score"
    /\ \E reply \in Replies :
         /\ oracle_log' = Append(oracle_log, [row |-> i, reply |-> reply])
         /\ flat_results' = Assess(flat_results, jpeg, reply)
    /\ pc' = "fetch"
    /\ UNCHANGED <<ws, df, i, jpeg, backend, fetch_log>>

\* The rows are exhausted: the results are written into df and df into the
\* sheet (lines 194-198).
WriteBack ==
    /\ pc = "fetch"
    /\ i = Len(df)
    /\ df' = WriteFrom(df, flat_results, 1)
    /\ ws' = df'
    /\ pc' = "done"
    /\ UNCHANGED <<i, jpeg, backend, flat_results, fetch_log, oracle_log>>

Next == FetchRow \/ ScoreRow \/ WriteBack

Spec == Init /\ [][Next]_vars

\* ================================================================= claims

Rows == 1..Len(df)

\* The oracle calls made for row j.
CallsFor(j) == {c \in 1..Len(oracle_log) : oracle_log[c].row = j}

\* The calls whose reply parsed as a JSON object: the successfully scored rows.
ScoredCalls == {c \in 1..Len(oracle_log) : Assessments[oracle_log[c].reply].exc = ""}

\* The entry of the row call c was made for.
EntryOf(c) == flat_results[oracle_log[c].row]

\* All six result fields of entry e hold "None", and e has no other field.
AllNone(e) ==
    /\ DictKeys(e) = {result_cols[c] : c \in 1..Len(result_cols)}
    /\ Len(e) = Len(result_cols)
    /\ \A c \in 1..Len(result_cols) : DictGet(e, result_cols[c]) = JStr("None")

\* C1: the row loop runs to the end whatever happens to single rows: it is
\* always at a row of the dataset or past the last one (so that FetchRow,
\* ScoreRow or WriteBack can be taken until the run is done), the results
\* hold one entry per row processed so far, at writeback one per row of the
\* dataset, and entry j is the entry of row j: it follows from row j's fetch
\* and row j's oracle call and from no other row's.
C1_OneEntryPerRowInOrder ==
    /\ pc \in {"fetch", "score", "done"}
    /\ i <= Len(df)
    /\ pc = "score" => i >= 1
    /\ Len(flat_results) = (IF pc = "score" THEN i - 1 ELSE i)
    /\ Len(fetch_log) = i
    /\ pc = "done" => Len(flat_results) = Len(df)
    /\ \A j \in 1..Len(flat_results) :
         /\ fetch_log[j].row = j
         /\ ~fetch_log[j].ok => CallsFor(j) = {} /\ flat_results[j] = NoneResult
         /\ fetch_log[j].ok =>
              /\ Cardinality(CallsFor(j)) = 1
              /\ \A c \in CallsFor(j) :
                   flat_results[j] = (IF c \in ScoredCalls
                                      THEN RowResults[oracle_log[c].reply]
                                      ELSE NoneResult)

\* A run that ended with a failed first row followed by a scored second row.
C1_Witness ==
    /\ pc = "done"
    /\ Len(df) >= 2
    /\ ~fetch_log[1].ok
    /\ flat_results[1] = NoneResult
    /\ \E c \in ScoredCalls : oracle_log[c].row = 2 /\ flat_results[2] # NoneResult

\* C2: a row whose image could not be fetched or normalised gets "None" in all
\* six fields and no oracle call; the oracle is called only for rows whose
\* image was loaded, and at most once per row.
C2_OracleOnlyForLoadedImages ==
    /\ \A j \in 1..Len(fetch_log) :
         ~fetch_log[j].ok =>
             /\ CallsFor(j) = {}
             /\ j <= Len(flat_results)
             /\ AllNone(flat_results[j])
    /\ \A c \in 1..Len(oracle_log) :
         /\ oracle_log[c].row <= Len(fetch_log)
         /\ fetch_log[oracle_log[c].row].ok
         /\ CallsFor(oracle_log[c].row) = {c}

\* A row's image bytes were fetched but are no image, after an earlier row
\* was sent to the oracle.
C2_Witness ==
    /\ pc = "fetch"
    /\ i >= 2
    /\ backend = "garbage"
    /\ ~fetch_log[i].ok
    /\ AllNone(flat_results[i])
    /\ CallsFor(i) = {}
    /\ CallsFor(1) # {}

\* C3: every entry of the results has exactly the six result fields, so that
\* writeback leaves the set of columns of df as it was.
C3_SixFieldsExactly ==
    /\ \A j \in 1..Len(flat_results) :
         DictKeys(flat_results[j]) = {result_cols[c] : c \in 1..Len(result_cols)}
    /\ \A j \in Rows :
         DictKeys(df[j]) = {photo_col, "Timestamp"} \cup {result_cols[c] : c \in 1..Len(result_cols)}

\* The integer an "s, c" string leads with; HasScore says there is one.
ScorePart(x) == SplitFirst(x.s, ",")

HasScore(x) ==
    /\ x.t = "str"
    /\ contains(x.s, ",")
    /\ Len(ScorePart(x)) > 0
    /\ \A q \in 1..Len(ScorePart(x)) : IsDigit(Ch(ScorePart(x), q))

IsNumber(x) == x.t \in {"int", "float"}

\* The sum of the four category scores of entry e.
ScoreSum(e) ==
    StrNat(ScorePart(DictGet(e, categories[1]))) + StrNat(ScorePart(DictGet(e, categories[2])))
    + StrNat(ScorePart(DictGet(e, categories[3]))) + StrNat(ScorePart(DictGet(e, categories[4])))

\* C4: in the entry of a successfully scored row the Overall Score is the
\* arithmetic mean of the entry's four category scores.
C4_OverallIsMean ==
    \A c \in ScoredCalls :
        (\A q \in 1..Len(categories) : HasScore(DictGet(EntryOf(c), categories[q])))
        => /\ IsNumber(DictGet(EntryOf(c), "Overall Score"))
           /\ 4 * DictGet(EntryOf(c), "Overall Score").n
                = ScoreSum(EntryOf(c)) * Pow10(DictGet(EntryOf(c), "Overall Score").d)

\* x >= a / 10, for a number x.
AtLeastTenths(x, a) == 10 * x.n >= a * Pow10(x.d)

\* The label the thresholds of the rubric give a score.
LabelOf(x) ==
    IF AtLeastTenths(x, 85) THEN "Highly Recommend Hire"
    ELSE IF AtLeastTenths(x, 70) THEN "Recommend Hire"
    ELSE IF AtLeastTenths(x, 55) THEN "Further Training Required"
    ELSE "Not Recommend Hire"

\* C5: in the entry of a successfully scored row the Recommendation is the
\* label the thresholds 8.5, 7.0 and 5.5 give the entry's Overall Score.
C5_RecommendationByThreshold ==
    \A c \in ScoredCalls :
        IsNumber(DictGet(EntryOf(c), "Overall Score"))
        => DictGet(EntryOf(c), "Recommendation")
             = JStr(LabelOf(DictGet(EntryOf(c), "Overall Score")))

\* The replies that parse as a JSON object.
ParsedReplies == {x \in Replies : Assessments[x].exc = ""}

RECURSIVE Compact(_)
\* s in lower case without its spaces.
Compact(s) ==
    IF Len(s) = 0 THEN s
    ELSE (IF IsSpace(Ch(s, 1)) THEN "" ELSE LowerCh(Ch(s, 1))) \o Compact(SubSeq(s, 2, Len(s)))

\* The keys of the replies that parsed, each with the result field it spells
\* but for case and spaces.
SpelledFields ==
    {kf \in (UNION {DictKeys(Assessments[r].val.o) : r \in ParsedReplies})
             \X {result_cols[c] : c \in 1..Len(result_cols)} :
        Compact(kf[1]) = Compact(kf[2])}

\* Whether key normalisation, applied to the normalised mapping of a reply,
\* changes nothing.
Idempotent ==
    [r \in Replies |->
        Assessments[r].exc = ""
        => NormaliseKeys(NormaliseKeys(Assessments[r].val.o)) = NormaliseKeys(Assessments[r].val.o)]

\* C6: key normalisation maps every spelling of one of the six field names
\* that differs from it in case, surrounding whitespace or inner spaces only
\* onto that field, and is idempotent.
C6_SpellingsNormalised ==
    \A c \in ScoredCalls :
        /\ \A kf \in SpelledFields :
             DictHas(Assessments[oracle_log[c].reply].val.o, kf[1])
             => NormaliseKey(kf[1]) = kf[2]
        /\ Idempotent[oracle_log[c].reply]

\* The value category cat has in the reply of call c once the keys are
\* normalised, and the value it has in the entry.
Normalised ==
    [r \in Replies |->
        IF Assessments[r].exc = "" THEN NormaliseKeys(Assessments[r].val.o) ELSE <<>>]

ItemOf(c, cat) == DictGet(Normalised[oracle_log[c].reply], cat)

OutOf(c, cat) == DictGet(EntryOf(c), cat)

\* The (reply, category) pairs flattening is judged on.
FlattenCases == ParsedReplies \X {categories[c] : c \in 1..Len(categories)}

ItemIn(rc) == DictGet(Normalised[rc[1]], rc[2])

OutIn(rc) == DictGet(RowResults[rc[1]], rc[2])

\* Flattening as C7 states it: an object with score s and comment c becomes "s, c", a
\* non-empty string is kept, an absent or empty value becomes "None", and the
\* field is a non-empty string afterwards.
C7_StatedHolds(rc) ==
    /\ (ItemIn(rc).t = "obj" /\ DictHas(ItemIn(rc).o, "score") /\ DictHas(ItemIn(rc).o, "comment"))
         => OutIn(rc) = JStr(PyStr(DictGet(ItemIn(rc).o, "score")) \o ", "
                             \o PyStr(DictGet(ItemIn(rc).o, "comment")))
    /\ (ItemIn(rc).t = "str" /\ ItemIn(rc).s # "") => OutIn(rc) = ItemIn(rc)
    /\ (ItemIn(rc).t = "null" \/ (ItemIn(rc).t = "str" /\ ItemIn(rc).s = ""))
         => OutIn(rc) = JStr("None")
    /\ OutIn(rc).t = "str" /\ OutIn(rc).s # ""

C7_StatedOn == [rc \in FlattenCases |-> C7_StatedHolds(rc)]

\* C7 (as stated): in every entry of a scored row each category field was
\* flattened as stated: object to "s, c", non-empty string kept, absent or
\* empty to "None".
C7_FlattenAsStated ==
    \A c \in ScoredCalls :
        \A q \in 1..Len(categories) : C7_StatedOn[<<oracle_log[c].reply, categories[q]>>]

\* Flattening as C7 is amended: an object becomes "s, c" (a missing score or comment reads
\* None), whatever the order of its keys; a string with a character that is
\* no whitespace is kept; every other value (absent, null, an empty or
\* whitespace-only string, a number, a boolean) becomes "None"; the field is
\* a non-empty string afterwards.
C7_AmendedHolds(rc) ==
    /\ ItemIn(rc).t = "obj"
         => OutIn(rc) = JStr(PyStr(DictGet(ItemIn(rc).o, "score")) \o ", "
                             \o PyStr(DictGet(ItemIn(rc).o, "comment")))
    /\ (ItemIn(rc).t = "str" /\ strip(ItemIn(rc).s) # "") => OutIn(rc) = ItemIn(rc)
    /\ (ItemIn(rc).t # "obj" /\ ~(ItemIn(rc).t = "str" /\ strip(ItemIn(rc).s) # ""))
         => OutIn(rc) = JStr("None")
    /\ OutIn(rc).t = "str" /\ OutIn(rc).s # ""

C7_AmendedOn == [rc \in FlattenCases |-> C7_AmendedHolds(rc)]

\* C7 (amended): in every entry of a scored row each category field was
\* flattened as amended: object to "s, c", string with a non-whitespace
\* character kept, anything else to "None"; the field is a non-empty string.
C7_FlattenOutcomes ==
    \A c \in ScoredCalls :
        /\ \A q \in 1..Len(categories) :
             C7_AmendedOn[<<oracle_log[c].reply, categories[q]>>]
        /\ \A q \in 1..Len(categories) : OutOf(c, categories[q]) = OutIn(<<oracle_log[c].reply, categories[q]>>)

\* An entry whose Cuticle Work was flattened from an object that lists its
\* comment before its score, and an entry whose whitespace-only Cleanliness
\* became "None".
C7_Witness ==
    /\ \E c \in ScoredCalls :
         /\ ItemOf(c, "Cuticle Work").t = "obj"
         /\ ItemOf(c, "Cuticle Work").o[1].k = "comment"
         /\ OutOf(c, "Cuticle Work") = JStr("8, tidy")
         /\ OutOf(c, "Polish Application") = JStr("9, smooth")
    /\ \E c \in ScoredCalls :
         /\ ItemOf(c, "Cleanliness") = JStr("   ")
         /\ OutOf(c, "Cleanliness") = JStr("None")
         /\ OutOf(c, "Polish Application") = JStr("6, thin")

\* Whether a reply lacks a brace or its text from the first "{" to the last
\* "}" is no JSON.
Malformed ==
    [r \in Replies |->
        /\ ~r.exc
        /\ \/ find(strip(r.content), "{") = -1
           \/ rfind(strip(r.content), "}") = -1
           \/ ~json_loads(Slice(strip(r.content), find(strip(r.content), "{"),
                                rfind(strip(r.content), "}") + 1)).ok]

\* C8: a reply that lacks "{" or "}", or whose text between them is no JSON,
\* fails the assessment as a whole: the row's entry is "None" in all six
\* fields and the loop is back at its head for the next row.
C8_MalformedReplyGivesNone ==
    \A c \in 1..Len(oracle_log) :
        Malformed[oracle_log[c].reply]
        => /\ oracle_log[c].row <= Len(flat_results)
           /\ AllNone(EntryOf(c))
           /\ (oracle_log[c].row = i /\ pc # "done") => pc = "fetch"

\* A reply with both braces that is cut off got its row the "None" entry, and
\* so did a reply without braces, and a later row was fetched after it.
C8_Witness ==
    /\ \E c \in 1..Len(oracle_log) :
         /\ Malformed[oracle_log[c].reply]
         /\ contains(oracle_log[c].reply.content, "{")
         /\ contains(oracle_log[c].reply.content, "}")
         /\ AllNone(EntryOf(c))
         /\ oracle_log[c].row < i
    /\ \E c \in 1..Len(oracle_log) :
         /\ Malformed[oracle_log[c].reply]
         /\ ~contains(oracle_log[c].reply.content, "{")
         /\ AllNone(EntryOf(c))

\* C9: for a row that carries a timestamp no image is fetched and the oracle
\* is not called.
C9_StampedRowsSkipped ==
    /\ \A f \in 1..Len(fetch_log) : ~Truthy(DictGet(df[fetch_log[f].row], "Timestamp"))
    /\ \A c \in 1..Len(oracle_log) : ~Truthy(DictGet(df[oracle_log[c].row], "Timestamp"))

\* C10: a reference that contains "open?id=" or "/file/d/" is downloaded from
\* the file storage: when the storage holds an image or a PDF under it, the
\* resolver returns the JPEG.
C10_DriveLinkResolved ==
    (/\ i >= 1
     /\ DictGet(df[i], photo_col).t = "str"
     /\ \/ contains(DictGet(df[i], photo_col).s, "open?id=")
        \/ contains(DictGet(df[i], photo_col).s, "/file/d/")
     /\ backend \in {"image", "pdf"})
    => (fetch_log[i].ok /\ (pc = "score" => Truthy(jpeg)))

====
